---- MODULE Spec2Model ----
(***************************************************************************)
(* Model of src/app.py: the field normalizers (normalize_dob,              *)
(* normalize_mnn, normalize_snils), extract_features, and the Streamlit    *)
(* script with its two buttons.                                            *)
(*                                                                         *)
(* A Python str is a sequence of characters.  A character is a token:      *)
(* an ASCII character stands for itself, a Cyrillic letter is written      *)
(* "cyr_<translit>" (lower case) or "CYR_<TRANSLIT>" (upper case), and     *)
(* "numero" / "en_dash" are U+2116 / U+2013.                               *)
(***************************************************************************)
EXTENDS Integers, Sequences, FiniteSets, TLC

VARIABLES
    padsYear,   \* whether the C library's strftime zero-pads %Y to 4 digits
    gen,        \* how the raw input of a normalizer call was written
    raw,        \* the argument of the normalizer call
    out,        \* its result
    out2,       \* the result of normalizing the result again
    pc,         \* position of the call sequence
    rowA, rowB, \* the two records given to extract_features
    featAB,     \* extract_features(rowA, rowB)
    featBA,     \* extract_features(rowB, rowA)
    session,    \* st.session_state: the widgets' values
    shown,      \* what the last script run displayed below the form
    features,   \* the feature vector the last script run extracted
    prob,       \* <<p>>: the scorer returned p in the last script run
    edits       \* number of widget edits made by the user so far

vars == <<padsYear, gen, raw, out, out2, pc, rowA, rowB, featAB, featBA,
          session, shown, features, prob, edits>>

----------------------------------------------------------------------------
(* Characters *)

Digits == <<"0", "1", "2", "3", "4", "5", "6", "7", "8", "9">>

LatLo == <<"a", "b", "c", "d", "e", "f", "g", "h", "i", "j", "k", "l", "m",
           "n", "o", "p", "q", "r", "s", "t", "u", "v", "w", "x", "y", "z">>

LatUp == <<"A", "B", "C", "D", "E", "F", "G", "H", "I", "J", "K", "L", "M",
           "N", "O", "P", "Q", "R", "S", "T", "U", "V", "W", "X", "Y", "Z">>

\* U+0430 .. U+044F in code point order
CyrLo == <<"cyr_a", "cyr_b", "cyr_v", "cyr_g", "cyr_d", "cyr_e", "cyr_zh",
           "cyr_z", "cyr_i", "cyr_j", "cyr_k", "cyr_l", "cyr_m", "cyr_n",
           "cyr_o", "cyr_p", "cyr_r", "cyr_s", "cyr_t", "cyr_u", "cyr_f",
           "cyr_h", "cyr_c", "cyr_ch", "cyr_sh", "cyr_shch", "cyr_hard",
           "cyr_y", "cyr_soft", "cyr_eh", "cyr_yu", "cyr_ya">>

\* U+0410 .. U+042F in code point order
CyrUp == <<"CYR_A", "CYR_B", "CYR_V", "CYR_G", "CYR_D", "CYR_E", "CYR_ZH",
           "CYR_Z", "CYR_I", "CYR_J", "CYR_K", "CYR_L", "CYR_M", "CYR_N",
           "CYR_O", "CYR_P", "CYR_R", "CYR_S", "CYR_T", "CYR_U", "CYR_F",
           "CYR_H", "CYR_C", "CYR_CH", "CYR_SH", "CYR_SHCH", "CYR_HARD",
           "CYR_Y", "CYR_SOFT", "CYR_EH", "CYR_YU", "CYR_YA">>

Range(s) == {s[i] : i \in 1..Len(s)}

DigitSet == Range(Digits)
LatLoSet == Range(LatLo)
LatUpSet == Range(LatUp)
CyrLoSet == Range(CyrLo)
CyrUpSet == Range(CyrUp)

\* the characters the regular expression class \s matches
Whitespace == {" ", "\t"}

IndexOf(seq, c) == CHOOSE i \in 1..Len(seq) : seq[i] = c

\* all characters of the model in code point order
CodePoints ==
    <<"\t", " ", "'", ",", "-", ".", "/">> \o Digits \o LatUp \o <<"_">>
    \o LatLo \o <<"CYR_YO">> \o CyrUp \o CyrLo
    \o <<"cyr_yo", "en_dash", "numero">>

ord(c) == IndexOf(CodePoints, c)

\* str.lower() on one character
LowerChar(c) ==
    IF c \in LatUpSet THEN LatLo[IndexOf(LatUp, c)]
    ELSE IF c \in CyrUpSet THEN CyrLo[IndexOf(CyrUp, c)]
    ELSE IF c = "CYR_YO" THEN "cyr_yo"
    ELSE c

lower(s) == [i \in 1..Len(s) |-> LowerChar(s[i])]

\* re.sub(r'[<class>]', '', s): delete every character of a class
DeleteChars(s, class) == SelectSeq(s, LAMBDA c : c \notin class)

\* whether word occurs in s at position i
OccursAt(word, s, i) ==
    /\ i + Len(word) - 1 <= Len(s)
    /\ \A k \in 1..Len(word) : s[i + k - 1] = word[k]

\* `word in s`
Contains(s, word) == \E i \in 1..(Len(s) + 1) : OccursAt(word, s, i)

\* re.sub(word, repl, s) / s.replace(word, repl) for a literal, non-empty
\* word: the non-overlapping occurrences, leftmost first
RECURSIVE ReplaceFrom(_, _, _, _)
ReplaceFrom(s, word, repl, i) ==
    IF i > Len(s) THEN <<>>
    ELSE IF OccursAt(word, s, i)
         THEN repl \o ReplaceFrom(s, word, repl, i + Len(word))
         ELSE <<s[i]>> \o ReplaceFrom(s, word, repl, i + 1)

Replace(s, word, repl) == ReplaceFrom(s, word, repl, 1)

\* the number written by a string of ASCII digits
RECURSIVE DigitsValue(_)
DigitsValue(s) ==
    IF Len(s) = 0 THEN 0
    ELSE 10 * DigitsValue(SubSeq(s, 1, Len(s) - 1)) + (IndexOf(Digits, s[Len(s)]) - 1)

\* int() of a matched group: surrounding whitespace is ignored
ToInt(s) == DigitsValue(DeleteChars(s, Whitespace))

\* str() of a natural number
RECURSIVE IntToStr(_)
IntToStr(n) ==
    IF n < 10 THEN <<Digits[n + 1]>>
    ELSE IntToStr(n \div 10) \o <<Digits[(n % 10) + 1]>>

\* a number zero-padded to at least w digits
RECURSIVE ZeroPad(_, _)
ZeroPad(s, w) == IF Len(s) >= w THEN s ELSE ZeroPad(<<"0">> \o s, w)

----------------------------------------------------------------------------
(* normalize_dob *)

\* the year marker and period deleted by the first re.sub
YearMarkerClass == {"cyr_g", "."}

\* the allow-list of the second re.sub
DobAllowed ==
    DigitSet \cup LatLoSet \cup CyrLoSet \cup {"cyr_yo"} \cup Whitespace
    \cup {"-", "/", ".", "'"}

\* month_map, in the dict's insertion order
month_map ==
    << <<<<"cyr_ya", "cyr_n", "cyr_v">>, <<"0", "1">>>>,
       <<<<"cyr_f", "cyr_e", "cyr_v">>,  <<"0", "2">>>>,
       <<<<"cyr_m", "cyr_a", "cyr_r">>,  <<"0", "3">>>>,
       <<<<"cyr_a", "cyr_p", "cyr_r">>,  <<"0", "4">>>>,
       <<<<"cyr_m", "cyr_a", "cyr_j">>,  <<"0", "5">>>>,
       <<<<"cyr_i", "cyr_yu", "cyr_n">>, <<"0", "6">>>>,
       <<<<"cyr_i", "cyr_yu", "cyr_l">>, <<"0", "7">>>>,
       <<<<"cyr_a", "cyr_v", "cyr_g">>,  <<"0", "8">>>>,
       <<<<"cyr_s", "cyr_e", "cyr_n">>,  <<"0", "9">>>>,
       <<<<"cyr_o", "cyr_k", "cyr_t">>,  <<"1", "0">>>>,
       <<<<"cyr_n", "cyr_o", "cyr_ya">>, <<"1", "1">>>>,
       <<<<"cyr_d", "cyr_e", "cyr_k">>,  <<"1", "2">>>> >>

\* the loop over month_map.items(), from entry k on
RECURSIVE SubstituteMonths(_, _)
SubstituteMonths(s, k) ==
    IF k > Len(month_map) THEN s
    ELSE SubstituteMonths(
             IF Contains(s, month_map[k][1])
             THEN Replace(s, month_map[k][1], month_map[k][2])
             ELSE s,
             k + 1)

\* the list of strptime formats, each a sequence of directives and literals
formats ==
    << <<"%d", ".", "%m", ".", "%Y">>,
       <<"%d", "/", "%m", "/", "%Y">>,
       <<"%Y", "-", "%m", "-", "%d">>,
       <<"%d", " ", "%m", " ", "%Y">>,
       <<"%d", ".", "%m", "'", "%y">> >>

IsDigitAt(s, i) == i <= Len(s) /\ s[i] \in DigitSet
CharAt(s, i, class) == i <= Len(s) /\ s[i] \in class

\* length of the run of whitespace of s starting at position i
RECURSIVE WsRun(_, _)
WsRun(s, i) == IF CharAt(s, i, Whitespace) THEN 1 + WsRun(s, i + 1) ELSE 0

\* descending sequence n, n-1, .., 1
RECURSIVE DownTo(_)
DownTo(n) == IF n <= 0 THEN <<>> ELSE <<n>> \o DownTo(n - 1)

\* The lengths that one element of a format can consume of s at position i,
\* in the order the regular expression of _strptime tries them:
\*   %d  3[0-1]|[1-2]\d|0[1-9]|[1-9]| [1-9]
\*   %m  1[0-2]|0[1-9]|[1-9]
\*   %Y  \d\d\d\d      %y  \d\d
\*   whitespace in the format is \s+ (greedy), any other character itself
DirectiveAlts(tok, s, i) ==
    IF tok = "%d" THEN
        (IF CharAt(s, i, {"3"}) /\ CharAt(s, i + 1, {"0", "1"}) THEN <<2>> ELSE <<>>)
        \o (IF CharAt(s, i, {"1", "2"}) /\ IsDigitAt(s, i + 1) THEN <<2>> ELSE <<>>)
        \o (IF CharAt(s, i, {"0"}) /\ CharAt(s, i + 1, DigitSet \ {"0"}) THEN <<2>> ELSE <<>>)
        \o (IF CharAt(s, i, DigitSet \ {"0"}) THEN <<1>> ELSE <<>>)
        \o (IF CharAt(s, i, {" "}) /\ CharAt(s, i + 1, DigitSet \ {"0"}) THEN <<2>> ELSE <<>>)
    ELSE IF tok = "%m" THEN
        (IF CharAt(s, i, {"1"}) /\ CharAt(s, i + 1, {"0", "1", "2"}) THEN <<2>> ELSE <<>>)
        \o (IF CharAt(s, i, {"0"}) /\ CharAt(s, i + 1, DigitSet \ {"0"}) THEN <<2>> ELSE <<>>)
        \o (IF CharAt(s, i, DigitSet \ {"0"}) THEN <<1>> ELSE <<>>)
    ELSE IF tok = "%Y" THEN
        (IF \A k \in 0..3 : IsDigitAt(s, i + k) THEN <<4>> ELSE <<>>)
    ELSE IF tok = "%y" THEN
        (IF \A k \in 0..1 : IsDigitAt(s, i + k) THEN <<2>> ELSE <<>>)
    ELSE IF tok \in Whitespace THEN DownTo(WsRun(s, i))
    ELSE (IF CharAt(s, i, {tok}) THEN <<1>> ELSE <<>>)

NoMatch == [ok |-> FALSE]

\* re.match of the format's regular expression on s: the first path, in the
\* regular expression's backtracking order, that matches elements k.. of fmt
\* from position i on; groups holds the directives matched so far
RECURSIVE RegexMatch(_, _, _, _, _)
RECURSIVE TryAlts(_, _, _, _, _, _, _)
RegexMatch(fmt, k, s, i, groups) ==
    IF k > Len(fmt) THEN [ok |-> TRUE, end |-> i, groups |-> groups]
    ELSE TryAlts(fmt, k, s, i, groups, DirectiveAlts(fmt[k], s, i), 1)

TryAlts(fmt, k, s, i, groups, alts, a) ==
    IF a > Len(alts) THEN NoMatch
    ELSE LET n    == alts[a]
             text == SubSeq(s, i, i + n - 1)
             g    == IF fmt[k] \in {"%d", "%m", "%Y", "%y"}
                     THEN [groups EXCEPT ![fmt[k]] = text]
                     ELSE groups
             rest == RegexMatch(fmt, k + 1, s, i + n, g)
         IN  IF rest.ok THEN rest
             ELSE TryAlts(fmt, k, s, i, groups, alts, a + 1)

NoGroups == [x \in {"%d", "%m", "%Y", "%y"} |-> <<>>]

IsLeap(y) == (y % 4 = 0) /\ ((y % 100 # 0) \/ (y % 400 = 0))

DaysInMonth(y, m) ==
    IF m = 2 THEN (IF IsLeap(y) THEN 29 ELSE 28)
    ELSE IF m \in {4, 6, 9, 11} THEN 30
    ELSE 31

Invalid == [ok |-> FALSE]

\* datetime.strptime(s, fmt): a date, or Invalid where it raises ValueError
strptime(s, fmt) ==
    LET found == RegexMatch(fmt, 1, s, 1, NoGroups)
    IN  IF ~found.ok THEN Invalid
        ELSE IF found.end # Len(s) + 1 THEN Invalid   \* unconverted data remains
        ELSE LET g     == found.groups
                 yy    == ToInt(g["%y"])
                 year  == IF Len(g["%Y"]) > 0 THEN ToInt(g["%Y"])
                          ELSE IF yy <= 68 THEN 2000 + yy ELSE 1900 + yy
                 month == ToInt(g["%m"])
                 day   == ToInt(g["%d"])
             IN  IF year < 1 \/ day > DaysInMonth(year, month) THEN Invalid
                 ELSE [ok |-> TRUE, year |-> year, month |-> month, day |-> day]

\* dt.strftime("%Y-%m-%d"); the C library decides whether %Y is zero-padded
strftime(dt) ==
    (IF padsYear THEN ZeroPad(IntToStr(dt.year), 4) ELSE IntToStr(dt.year))
    \o <<"-">> \o ZeroPad(IntToStr(dt.month), 2)
    \o <<"-">> \o ZeroPad(IntToStr(dt.day), 2)

\* the loop over formats, from format k on
RECURSIVE FirstFormat(_, _)
FirstFormat(s, k) ==
    IF k > Len(formats) THEN <<>>
    ELSE LET dt == strptime(s, formats[k])
         IN  IF dt.ok THEN strftime(dt) ELSE FirstFormat(s, k + 1)

normalize_dob(dob_str) ==
    IF dob_str = <<>> THEN <<>>
    ELSE LET s1 == lower(dob_str)
             s2 == DeleteChars(s1, YearMarkerClass)
             s3 == SelectSeq(s2, LAMBDA c : c \in DobAllowed)
             s4 == SubstituteMonths(s3, 1)
         IN  FirstFormat(s4, 1)

----------------------------------------------------------------------------
(* normalize_snils *)

\* the length of a valid identifier
SnilsLen == 11

\* normalize_snils with the length test written as "at least"
normalize_snils_atleast(snils_str) ==
    LET digits == SelectSeq(snils_str, LAMBDA c : c \in DigitSet)
    IN  IF Len(digits) >= SnilsLen THEN digits ELSE <<>>

normalize_snils(snils_str) ==
    LET digits == SelectSeq(snils_str, LAMBDA c : c \in DigitSet)
    IN  IF Len(digits) = SnilsLen THEN digits ELSE <<>>

----------------------------------------------------------------------------
(* normalize_mnn *)

\* str.strip(): leading and trailing whitespace removed
RECURSIVE lstrip(_)
lstrip(s) == IF Len(s) > 0 /\ s[1] \in Whitespace THEN lstrip(Tail(s)) ELSE s

RECURSIVE rstrip(_)
rstrip(s) ==
    IF Len(s) > 0 /\ s[Len(s)] \in Whitespace
    THEN rstrip(SubSeq(s, 1, Len(s) - 1))
    ELSE s

strip(s) == rstrip(lstrip(s))

\* re.sub(r'\s+', ' ', s): every run of whitespace becomes one space
RECURSIVE CollapseWs(_, _)
CollapseWs(s, i) ==
    IF i > Len(s) THEN <<>>
    ELSE IF s[i] \in Whitespace
         THEN <<" ">> \o CollapseWs(s, i + WsRun(s, i))
         ELSE <<s[i]>> \o CollapseWs(s, i + 1)

\* typo_fix, in the dict's insertion order
typo_fix ==
    << << <<"cyr_p", "cyr_a", "cyr_r", "cyr_a", "cyr_c", "cyr_i", "cyr_t",
            "cyr_a", "cyr_m", "cyr_o", "cyr_l">>,
          <<"cyr_p", "cyr_a", "cyr_r", "cyr_a", "cyr_c", "cyr_e", "cyr_t",
            "cyr_a", "cyr_m", "cyr_o", "cyr_l">> >>,
       << <<"cyr_i", "cyr_b", "cyr_u", "cyr_p", "cyr_r", "cyr_a", "cyr_f",
            "cyr_e", "cyr_n">>,
          <<"cyr_i", "cyr_b", "cyr_u", "cyr_p", "cyr_r", "cyr_o", "cyr_f",
            "cyr_e", "cyr_n">> >> >>

\* the loop over typo_fix.items(), from entry k on
RECURSIVE FixTypos(_, _)
FixTypos(s, k) ==
    IF k > Len(typo_fix) THEN s
    ELSE FixTypos(
             IF Contains(s, typo_fix[k][1])
             THEN Replace(s, typo_fix[k][1], typo_fix[k][2])
             ELSE s,
             k + 1)

normalize_mnn(mnn) == FixTypos(CollapseWs(lower(strip(mnn)), 1), 1)

----------------------------------------------------------------------------
(* fuzzywuzzy.fuzz on its pure-Python matcher, difflib.SequenceMatcher.     *)
(* Positions are 1-based and ranges lo..hi inclusive; no character is junk  *)
(* (the strings are shorter than the 200 characters at which difflib's      *)
(* autojunk heuristic starts).                                              *)

\* length of the common run of a from i and b from j, inside the windows
RECURSIVE RunLen(_, _, _, _, _, _)
RunLen(a, b, i, j, ahi, bhi) ==
    IF i <= ahi /\ j <= bhi /\ a[i] = b[j]
    THEN 1 + RunLen(a, b, i + 1, j + 1, ahi, bhi)
    ELSE 0

SetMax(S) == CHOOSE x \in S : \A y \in S : y <= x
SetMin(S) == CHOOSE x \in S : \A y \in S : x <= y

\* SequenceMatcher.find_longest_match: the longest block common to
\* a[alo..ahi] and b[blo..bhi]; of the longest ones the one that starts
\* earliest in a, and of those the one that starts earliest in b
find_longest_match(a, b, alo, ahi, blo, bhi) ==
    LET \* the places where a common block begins
        starts == {p \in (alo..ahi) \X (blo..bhi) :
                      /\ a[p[1]] = b[p[2]]
                      /\ \/ p[1] = alo
                         \/ p[2] = blo
                         \/ a[p[1] - 1] # b[p[2] - 1]}
        len   == [p \in starts |-> RunLen(a, b, p[1], p[2], ahi, bhi)]
        best  == SetMax({len[p] : p \in starts})
        besti == SetMin({p[1] : p \in {q \in starts : len[q] = best}})
        bestj == SetMin({p[2] : p \in {q \in starts :
                                          len[q] = best /\ q[1] = besti}})
    IN  IF starts = {} THEN [i |-> alo, j |-> blo, size |-> 0]
        ELSE [i |-> besti, j |-> bestj, size |-> best]

\* the matching blocks of a[alo..ahi] and b[blo..bhi], left to right: the
\* longest block, then the same to its left and to its right
RECURSIVE MatchingBlocks(_, _, _, _, _, _)
MatchingBlocks(a, b, alo, ahi, blo, bhi) ==
    LET m == find_longest_match(a, b, alo, ahi, blo, bhi)
    IN  IF m.size = 0 THEN <<>>
        ELSE MatchingBlocks(a, b, alo, m.i - 1, blo, m.j - 1)
             \o <<m>>
             \o MatchingBlocks(a, b, m.i + m.size, ahi, m.j + m.size, bhi)

\* SequenceMatcher.get_matching_blocks: the blocks and the closing dummy
\* block (len(a), len(b), 0)
get_matching_blocks(a, b) ==
    MatchingBlocks(a, b, 1, Len(a), 1, Len(b))
    \o <<[i |-> Len(a) + 1, j |-> Len(b) + 1, size |-> 0]>>

RECURSIVE SumSizes(_)
SumSizes(blocks) ==
    IF Len(blocks) = 0 THEN 0 ELSE blocks[1].size + SumSizes(Tail(blocks))

\* number of matched characters of SequenceMatcher(None, a, b)
Matches(a, b) == SumSizes(get_matching_blocks(a, b))

\* int(round(n / d)): Python rounds a half to the even neighbour
intr(n, d) ==
    LET q == n \div d
        r == n % d
    IN  IF 2 * r < d THEN q
        ELSE IF 2 * r > d THEN q + 1
        ELSE IF q % 2 = 0 THEN q ELSE q + 1

\* fuzz.ratio, 0..100
ratio(s1, s2) ==
    IF s1 = s2 THEN 100                          \* check_for_equivalence
    ELSE IF Len(s1) = 0 \/ Len(s2) = 0 THEN 0    \* check_empty_string
    ELSE intr(200 * Matches(s1, s2), Len(s1) + Len(s2))

\* the score of one block in fuzz.partial_ratio, as the fraction
\* <<2 * matches, total length>>
BlockScore(shorter, longer, block) ==
    LET long_start  == IF block.j - block.i > 0 THEN block.j - block.i ELSE 0
        long_end    == long_start + Len(shorter)
        long_substr == SubSeq(longer, long_start + 1,
                              IF long_end > Len(longer) THEN Len(longer)
                              ELSE long_end)
    IN  <<2 * Matches(shorter, long_substr), Len(shorter) + Len(long_substr)>>

\* fuzz.partial_ratio, 0..100
partial_ratio(s1, s2) ==
    IF s1 = s2 THEN 100
    ELSE IF Len(s1) = 0 \/ Len(s2) = 0 THEN 0
    ELSE LET shorter == IF Len(s1) <= Len(s2) THEN s1 ELSE s2
             longer  == IF Len(s1) <= Len(s2) THEN s2 ELSE s1
             blocks  == get_matching_blocks(shorter, longer)
             scores  == {BlockScore(shorter, longer, blocks[k]) :
                            k \in 1..Len(blocks)}
             top     == CHOOSE x \in scores :
                            \A y \in scores : y[1] * x[2] <= x[1] * y[2]
         IN  IF \E x \in scores : 1000 * x[1] > 995 * x[2] THEN 100
             ELSE intr(100 * top[1], top[2])

\* the characters the regular expression class \w matches
WordChars ==
    DigitSet \cup LatLoSet \cup LatUpSet \cup CyrLoSet \cup CyrUpSet
    \cup {"_", "cyr_yo", "CYR_YO"}

\* utils.full_process(s, force_ascii=True): no character of the model lies
\* in U+0080..U+00FF, the range asciidammit deletes
full_process(s) ==
    strip(lower([i \in 1..Len(s) |->
                    IF s[i] \in WordChars THEN s[i] ELSE " "]))

\* str.split(): the maximal runs of non-whitespace, from position i on
RECURSIVE NonWsRun(_, _)
NonWsRun(s, i) ==
    IF i <= Len(s) /\ s[i] \notin Whitespace THEN 1 + NonWsRun(s, i + 1) ELSE 0

RECURSIVE split(_, _)
split(s, i) ==
    IF i > Len(s) THEN <<>>
    ELSE IF s[i] \in Whitespace THEN split(s, i + 1)
    ELSE <<SubSeq(s, i, i + NonWsRun(s, i) - 1)>>
         \o split(s, i + NonWsRun(s, i))

\* s < t in Python's order of strings (by code point, a prefix first)
RECURSIVE StrLess(_, _)
StrLess(s, t) ==
    IF Len(t) = 0 THEN FALSE
    ELSE IF Len(s) = 0 THEN TRUE
    ELSE IF s[1] # t[1] THEN ord(s[1]) < ord(t[1])
    ELSE StrLess(Tail(s), Tail(t))

\* sorted(tokens)
RECURSIVE InsertSorted(_, _)
InsertSorted(tokens, t) ==
    IF Len(tokens) = 0 THEN <<t>>
    ELSE IF StrLess(t, tokens[1]) THEN <<t>> \o tokens
    ELSE <<tokens[1]>> \o InsertSorted(Tail(tokens), t)

RECURSIVE sorted(_)
sorted(tokens) ==
    IF Len(tokens) = 0 THEN <<>>
    ELSE InsertSorted(sorted(Tail(tokens)), tokens[1])

\* " ".join(tokens)
RECURSIVE join(_)
join(tokens) ==
    IF Len(tokens) = 0 THEN <<>>
    ELSE IF Len(tokens) = 1 THEN tokens[1]
    ELSE tokens[1] \o <<" ">> \o join(Tail(tokens))

\* fuzz._process_and_sort
process_and_sort(s) == strip(join(sorted(split(full_process(s), 1))))

\* fuzz.token_sort_ratio, 0..100
token_sort_ratio(s1, s2) == ratio(process_and_sort(s1), process_and_sort(s2))

----------------------------------------------------------------------------
(* extract_features *)

\* A record (a row) has the fields snils, dob, mnn, issued, disp (strings)
\* and qty, qty_disp (integers).

\* snils_match without the test of the length
snils_match_nolen(snils_a, snils_b) == IF snils_a = snils_b THEN 1 ELSE 0

snils_match(snils_a, snils_b) ==
    IF snils_a = snils_b /\ Len(snils_a) = SnilsLen THEN 1 ELSE 0

dob_match(dob_a, dob_b) ==
    IF dob_a = dob_b /\ dob_a # <<>> THEN 1 ELSE 0

abs(x) == IF x < 0 THEN -x ELSE x

\* The 9 dimensions in the order of the returned array.  The five
\* similarity dimensions are held in hundredths (the code divides the
\* 0..100 score by 100.0); the flags are 1 for 1.0 and 0 for 0.0.
extract_features(row_a, row_b) ==
    LET mnn_a == normalize_mnn(row_a.mnn)
        mnn_b == normalize_mnn(row_b.mnn)
    IN  << ratio(mnn_a, mnn_b),
           partial_ratio(mnn_a, mnn_b),
           ratio(row_a.issued, row_b.issued),
           token_sort_ratio(row_a.issued, row_b.issued),
           ratio(row_a.disp, row_b.disp),
           snils_match(normalize_snils(row_a.snils), normalize_snils(row_b.snils)),
           dob_match(normalize_dob(row_a.dob), normalize_dob(row_b.dob)),
           abs(row_a.qty - row_b.qty),
           abs(row_a.qty_disp - row_b.qty_disp) >>

----------------------------------------------------------------------------
(* Calls of normalize_dob on written dates *)

\* longest run of spaces written between the parts of a date
MaxSpaces == 2

\* the years dates are written with
Years == {999, 1968, 1969, 1990, 2000}

\* the strings that are given to normalize_dob as they are
DobLiterals ==
    { <<>>, <<"a", "b", "c">>, <<" ">>,
      <<"1", " ", "cyr_ya", "cyr_n", "cyr_v", "cyr_a", "cyr_r", "cyr_ya",
        " ", "1", "9", "9", "0">>,
      <<"3", "1", ".", "1", "2", ".", "1", "9", "9", "0", ",">> }

\* the ways a date is written: the five patterns of formats, and the day,
\* the abbreviated month name and the year, without and with the year marker
DateStyles ==
    {"dmy_dot", "dmy_slash", "ymd_dash", "dmy_space", "dmy_apos",
     "d_abbr_y", "d_abbr_y_g"}

Spaces(n) == [i \in 1..n |-> " "]
D2(n) == ZeroPad(IntToStr(n), 2)
Y4(n) == ZeroPad(IntToStr(n), 4)

\* the text of a date written in a style
WriteDate(g) ==
    IF g.style = "literal" THEN g.text
    ELSE IF g.style = "dmy_dot"
        THEN D2(g.day) \o <<".">> \o D2(g.month) \o <<".">> \o Y4(g.year)
    ELSE IF g.style = "dmy_slash"
        THEN D2(g.day) \o <<"/">> \o D2(g.month) \o <<"/">> \o Y4(g.year)
    ELSE IF g.style = "ymd_dash"
        THEN Y4(g.year) \o <<"-">> \o D2(g.month) \o <<"-">> \o D2(g.day)
    ELSE IF g.style = "dmy_space"
        THEN D2(g.day) \o Spaces(g.spaces) \o D2(g.month) \o Spaces(g.spaces)
             \o Y4(g.year)
    ELSE IF g.style = "dmy_apos"
        THEN D2(g.day) \o <<".">> \o D2(g.month) \o <<"'">> \o D2(g.year % 100)
    ELSE IF g.style = "d_abbr_y"
        THEN IntToStr(g.day) \o Spaces(g.spaces) \o month_map[g.month][1]
             \o Spaces(g.spaces) \o Y4(g.year)
    ELSE IntToStr(g.day) \o Spaces(g.spaces) \o month_map[g.month][1]
         \o Spaces(g.spaces) \o Y4(g.year) \o <<" ", "cyr_g", ".">>

DateGens ==
    { [style |-> st, year |-> y, month |-> m, day |-> d, spaces |-> n,
       text |-> <<>>] :
        st \in DateStyles, y \in Years, m \in 1..12, d \in 1..31,
        n \in 1..MaxSpaces }
    \cup
    { [style |-> "literal", year |-> 0, month |-> 0, day |-> 0, spaces |-> 0,
       text |-> t] : t \in DobLiterals }

\* only the styles that write spaces have more than one spacing
UsesSpaces(st) == st \in {"dmy_space", "d_abbr_y", "d_abbr_y_g"}

Idle == "idle"

DobInit ==
    /\ padsYear \in BOOLEAN
    /\ gen \in {g \in DateGens : UsesSpaces(g.style) \/ g.spaces <= 1}
    /\ raw = WriteDate(gen)
    /\ out = Idle /\ out2 = Idle
    /\ pc = "start"
    /\ rowA = Idle /\ rowB = Idle /\ featAB = Idle /\ featBA = Idle
    /\ session = Idle /\ shown = Idle /\ features = Idle /\ prob = Idle
    /\ edits = 0

\* out = normalize_dob(raw)
NormalizeDob ==
    /\ pc = "start"
    /\ out' = normalize_dob(raw)
    /\ pc' = "normalized"
    /\ UNCHANGED <<padsYear, gen, raw, out2, rowA, rowB, featAB, featBA,
                   session, shown, features, prob, edits>>

\* out2 = normalize_dob(out)
RenormalizeDob ==
    /\ pc = "normalized"
    /\ out2' = normalize_dob(out)
    /\ pc' = "done"
    /\ UNCHANGED <<padsYear, gen, raw, out, rowA, rowB, featAB, featBA,
                   session, shown, features, prob, edits>>

DobNext == NormalizeDob \/ RenormalizeDob

SpecDob == DobInit /\ [][DobNext]_vars

----------------------------------------------------------------------------
(* Records *)

\* a record whose fields all normalize and agree with themselves
DefaultRow ==
    [ snils    |-> <<"1", "2", "3", "4", "5", "6", "7", "8", "9", "0", "0">>,
      dob      |-> <<"1", "9", "9", "0", "-", "0", "1", "-", "0", "1">>,
      mnn      |-> <<"a", "b">>,
      issued   |-> <<"a", "b">>,
      disp     |-> <<"a", "b">>,
      qty      |-> 1,
      qty_disp |-> 1 ]

----------------------------------------------------------------------------
(* Calls of normalize_snils on written identifiers, and the comparison of  *)
(* the two records that carry them                                         *)

\* most digits an identifier is written with
MaxDigits == 12

\* the digits identifiers are written with, taken in a circle
DigitStream == <<"1", "2", "3", "4", "5", "6", "7", "8", "9", "0", "0">>

\* what is written after the digits, by position (taken in a circle)
SeparatorPatterns ==
    { << <<>> >>,
      << <<>>, <<>>, <<"-">>, <<>>, <<>>, <<"-">>, <<>>, <<>>, <<" ">> >>,
      << <<>>, <<>>, <<" ">> >>,
      << <<"a">>, <<>> >>,
      << <<".", "numero">> >> }

\* the k-th digit of an identifier that starts at place `first` of the stream
StreamDigit(first, k) == DigitStream[((first + k - 2) % Len(DigitStream)) + 1]

\* the digits of a written identifier
SnilsDigits(g) == [k \in 1..g.n |-> StreamDigit(g.first, k)]

\* the text of a written identifier: each digit and what follows it
RECURSIVE WriteSnilsFrom(_, _)
WriteSnilsFrom(g, k) ==
    IF k > g.n THEN <<>>
    ELSE <<StreamDigit(g.first, k)>>
         \o g.pattern[((k - 1) % Len(g.pattern)) + 1]
         \o WriteSnilsFrom(g, k + 1)

WriteSnils(g) == g.lead \o WriteSnilsFrom(g, 1)

SnilsGens ==
    { [n |-> n, first |-> f, pattern |-> p, lead |-> l] :
        n \in {0} \cup ((SnilsLen - 2)..MaxDigits), f \in {1, 2},
        p \in SeparatorPatterns, l \in {<<>>, <<" ">>} }

SnilsInit ==
    /\ padsYear \in BOOLEAN
    /\ gen \in SnilsGens \X SnilsGens
    /\ raw = <<WriteSnils(gen[1]), WriteSnils(gen[2])>>
    /\ rowA = [DefaultRow EXCEPT !.snils = raw[1]]
    /\ rowB = [DefaultRow EXCEPT !.snils = raw[2]]
    /\ out = Idle /\ out2 = Idle
    /\ pc = "start"
    /\ featAB = Idle /\ featBA = Idle
    /\ session = Idle /\ shown = Idle /\ features = Idle /\ prob = Idle
    /\ edits = 0

\* out = the two identifiers normalized
NormalizeSnils ==
    /\ pc = "start"
    /\ out' = <<normalize_snils(raw[1]), normalize_snils(raw[2])>>
    /\ pc' = "normalized"
    /\ UNCHANGED <<padsYear, gen, raw, out2, rowA, rowB, featAB, featBA,
                   session, shown, features, prob, edits>>

\* featAB = extract_features(rowA, rowB)
ExtractAB ==
    /\ pc \in {"start", "normalized"}
    /\ featAB' = extract_features(rowA, rowB)
    /\ pc' = "extracted"
    /\ UNCHANGED <<padsYear, gen, raw, out, out2, rowA, rowB, featBA,
                   session, shown, features, prob, edits>>

SnilsNext == NormalizeSnils \/ (pc = "normalized" /\ ExtractAB)

SpecSnils == SnilsInit /\ [][SnilsNext]_vars

----------------------------------------------------------------------------
(* Calls of extract_features on pairs of records, in both orders *)

\* largest quantity of a record
MaxQty == 2

SnilsVals ==
    { <<>>, <<"a", "b", "c">>, <<"1", "2", "3">>,
      DefaultRow.snils,
      <<"1", "2", "3", "-", "4", "5", "6", "-", "7", "8", "9", " ", "0", "0">>,
      <<"1", "2", "3", "4", "5", "6", "7", "8", "9", "0", "1">> }

DobVals ==
    { <<>>, <<"a", "b", "c">>,
      <<"0", "1", ".", "0", "1", ".", "1", "9", "9", "0">>,
      <<"1", " ", "cyr_ya", "cyr_n", "cyr_v", " ", "1", "9", "9", "0", " ",
        "cyr_g", ".">>,
      <<"1", " ", "cyr_ya", "cyr_n", "cyr_v", " ", "1", "9", "9", "0">>,
      <<"0", "1", "/", "0", "1", "/", "1", "9", "9", "0">>,
      <<"0", "2", "/", "0", "1", "/", "1", "9", "9", "0">>,
      DefaultRow.dob }

MnnVals ==
    { <<"a", "b">>, <<" ", "A", "B", " ", " ", "c", "\t">>,
      <<"CYR_I", "cyr_b", "cyr_u", "cyr_p", "cyr_r", "cyr_a", "cyr_f",
        "cyr_e", "cyr_n">> }

IssuedVals ==
    { <<"t", "i", "d", "e">>, <<"d", "i", "e", "t">>, <<"e", ".", "D">> }

DispVals == { <<"a", "b">>, <<"a", "a">> }

\* records that differ in the identifier and the birth date
FlagRows ==
    { [DefaultRow EXCEPT !.snils = s, !.dob = d] :
        s \in SnilsVals, d \in DobVals }

\* records that differ in the texts and the quantities
TextRows ==
    { [DefaultRow EXCEPT !.mnn = m, !.issued = i, !.disp = x, !.qty = q,
                         !.qty_disp = r] :
        m \in MnnVals, i \in IssuedVals, x \in DispVals,
        q \in 1..MaxQty, r \in {1, MaxQty} }

FeatInit ==
    /\ padsYear \in BOOLEAN
    /\ \E pair \in (FlagRows \X FlagRows) \cup (TextRows \X TextRows) :
           rowA = pair[1] /\ rowB = pair[2]
    /\ gen = Idle /\ raw = Idle /\ out = Idle /\ out2 = Idle
    /\ pc = "start"
    /\ featAB = Idle /\ featBA = Idle
    /\ session = Idle /\ shown = Idle /\ features = Idle /\ prob = Idle
    /\ edits = 0

\* featBA = extract_features(rowB, rowA)
ExtractBA ==
    /\ pc = "extracted"
    /\ featBA' = extract_features(rowB, rowA)
    /\ pc' = "done"
    /\ UNCHANGED <<padsYear, gen, raw, out, out2, rowA, rowB, featAB,
                   session, shown, features, prob, edits>>

FeatNext == (pc = "start" /\ ExtractAB) \/ ExtractBA

SpecFeat == FeatInit /\ [][FeatNext]_vars

----------------------------------------------------------------------------
(* The Streamlit script: every widget edit and every button press runs the  *)
(* script once, and what a run displays replaces what the run before it     *)
(* displayed.                                                               *)

EXAMPLE_RECORDS ==
    <<
      [ snils |->
          <<"1", "2", "3", "4", "5", "6", "7", "8", "9", "0", "0">>,
        dob |->
          <<"1", "9", "9", "0", "-", "0", "1", "-", "0", "1">>,
        mnn |->
          <<"CYR_I", "cyr_b", "cyr_u", "cyr_p", "cyr_r", "cyr_o", "cyr_f",
          "cyr_e", "cyr_n">>,
        issued |->
          <<"CYR_I", "cyr_b", "cyr_u", "cyr_p", "cyr_r", "cyr_o", "cyr_f",
          "cyr_e", "cyr_n", " ", "cyr_t", "cyr_a", "cyr_b", "cyr_l",
          "cyr_e", "cyr_t", "cyr_k", "cyr_i", " ", "2", "0", "0", "cyr_m",
          "cyr_g", " ", "numero", "3", "0">>,
        disp |->
          <<"CYR_I", "cyr_b", "cyr_u", "cyr_p", "cyr_r", "cyr_o", "cyr_f",
          "cyr_e", "cyr_n", " ", "cyr_t", "cyr_a", "cyr_b", ".", " ", "2",
          "0", "0", "cyr_m", "cyr_g">>,
        qty |-> 2,
        qty_disp |-> 2 ],
      [ snils |->
          <<"1", "2", "3", "-", "4", "5", "6", "-", "7", "8", "9", " ",
          "0", "0">>,
        dob |->
          <<"0", "1", ".", "0", "1", ".", "1", "9", "9", "0">>,
        mnn |->
          <<"CYR_P", "cyr_a", "cyr_r", "cyr_a", "cyr_c", "cyr_e", "cyr_t",
          "cyr_a", "cyr_m", "cyr_o", "cyr_l">>,
        issued |->
          <<"CYR_P", "cyr_a", "cyr_r", "cyr_a", "cyr_c", "cyr_e", "cyr_t",
          "cyr_a", "cyr_m", "cyr_o", "cyr_l", " ", "cyr_t", "cyr_a",
          "cyr_b", ".", " ", "5", "0", "0", "cyr_m", "cyr_g", " ",
          "en_dash", " ", "numero", "2", "0">>,
        disp |->
          <<"CYR_P", "cyr_a", "cyr_r", "cyr_a", "cyr_c", "cyr_e", "cyr_t",
          "cyr_a", "cyr_m", "cyr_o", "cyr_l", " ", "cyr_t", "cyr_a",
          "cyr_b", ".", " ", "5", "0", "0", "cyr_m", "cyr_g">>,
        qty |-> 3,
        qty_disp |-> 2 ],
      [ snils |->
          <<"1", "2", "3", " ", "4", "5", "6", " ", "7", "8", "9", " ",
          "0", "0">>,
        dob |->
          <<"1", " ", "cyr_ya", "cyr_n", "cyr_v", " ", "1", "9", "9", "0",
          " ", "cyr_g", ".">>,
        mnn |->
          <<"cyr_p", "cyr_a", "cyr_r", "cyr_a", "cyr_c", "cyr_e", "cyr_t",
          "cyr_a", "cyr_m", "cyr_o", "cyr_l">>,
        issued |->
          <<"CYR_P", "CYR_A", "CYR_R", "CYR_A", "CYR_C", "CYR_E", "CYR_T",
          "CYR_A", "CYR_M", "CYR_O", "CYR_L", " ", "CYR_T", "CYR_A",
          "CYR_B", " ", "5", "0", "0", "CYR_M", "CYR_G", " ", "N", "2",
          "0">>,
        disp |->
          <<"CYR_P", "cyr_a", "cyr_r", "cyr_a", "cyr_c", "cyr_e", "cyr_t",
          "cyr_a", "cyr_m", "cyr_o", "cyr_l", " ", "cyr_t", "cyr_a",
          "cyr_b", " ", "5", "0", "0", "cyr_m", "cyr_g">>,
        qty |-> 3,
        qty_disp |-> 1 ]
    >>

\* most widget edits the user makes
MaxEdits == 2

\* probabilities are held in thousandths, the resolution of the displayed
\* {prob:.1%}
One == 1000
Threshold == 500

\* the values the scorer, model.predict on the scaled features, may return
Probs == {-200, 500, 501, 1300}

\* value= of the number_input widgets
DefaultQty == 3
DefaultQtyDisp == 1

\* the text widgets, in the order of required_fields
TextKeys ==
    <<"snils1", "dob1", "mnn1", "issued1", "disp1",
      "snils2", "dob2", "mnn2", "issued2", "disp2">>

QtyKeys == {"qty1", "qty_disp1", "qty2", "qty_disp2"}

\* what the user types into a text widget
Typed(k) ==
    {<<>>, <<" ">>} \cup
    ( IF k \in {"snils1", "snils2"} THEN {DefaultRow.snils}
      ELSE IF k \in {"dob1", "dob2"} THEN {DefaultRow.dob}
      ELSE {<<"a", "b">>} )

\* the widget values of one record, as session_state.update sets them
Filled(rec1, rec2) ==
    [ k \in Range(TextKeys) \cup QtyKeys |->
        IF k = "snils1" THEN rec1.snils
        ELSE IF k = "dob1" THEN rec1.dob
        ELSE IF k = "mnn1" THEN rec1.mnn
        ELSE IF k = "issued1" THEN rec1.issued
        ELSE IF k = "disp1" THEN rec1.disp
        ELSE IF k = "qty1" THEN rec1.qty
        ELSE IF k = "qty_disp1" THEN rec1.qty_disp
        ELSE IF k = "snils2" THEN rec2.snils
        ELSE IF k = "dob2" THEN rec2.dob
        ELSE IF k = "mnn2" THEN rec2.mnn
        ELSE IF k = "issued2" THEN rec2.issued
        ELSE IF k = "disp2" THEN rec2.disp
        ELSE IF k = "qty2" THEN rec2.qty
        ELSE rec2.qty_disp ]

\* the widgets of a fresh session: empty texts and the default quantities
EmptyRecord ==
    [ snils |-> <<>>, dob |-> <<>>, mnn |-> <<>>, issued |-> <<>>,
      disp |-> <<>>, qty |-> DefaultQty, qty_disp |-> DefaultQtyDisp ]

\* no feature vector, no probability: the script run did not get that far
None == <<>>
NothingShown == [kind |-> "none", missing |-> <<>>, pct |-> 0]

AppInit ==
    /\ padsYear \in BOOLEAN
    /\ session = Filled(EmptyRecord, EmptyRecord)
    /\ shown = NothingShown
    /\ features = None
    /\ prob = None
    /\ edits = 0
    /\ gen = Idle /\ raw = Idle /\ out = Idle /\ out2 = Idle /\ pc = Idle
    /\ rowA = Idle /\ rowB = Idle /\ featAB = Idle /\ featBA = Idle

\* a run of the script with no button pressed displays the form alone
RunWithoutButton ==
    /\ shown' = NothingShown
    /\ features' = None
    /\ prob' = None

\* the user changes a text widget
EditText(k, v) ==
    /\ edits < MaxEdits
    /\ v # session[k]
    /\ session' = [session EXCEPT ![k] = v]
    /\ edits' = edits + 1
    /\ RunWithoutButton
    /\ UNCHANGED <<padsYear, gen, raw, out, out2, pc, rowA, rowB, featAB, featBA>>

\* the user changes a number widget (min_value=1)
EditQty(k, n) ==
    /\ edits < MaxEdits
    /\ n # session[k]
    /\ session' = [session EXCEPT ![k] = n]
    /\ edits' = edits + 1
    /\ RunWithoutButton
    /\ UNCHANGED <<padsYear, gen, raw, out, out2, pc, rowA, rowB, featAB, featBA>>

\* the fill button: two different example records, then st.rerun()
FillFromBase ==
    /\ Len(EXAMPLE_RECORDS) >= 2
    /\ \E i, j \in 1..Len(EXAMPLE_RECORDS) :
        /\ i # j
        /\ session' = Filled(EXAMPLE_RECORDS[i], EXAMPLE_RECORDS[j])
    /\ RunWithoutButton
    /\ UNCHANGED <<padsYear, gen, raw, out, out2, pc, rowA, rowB, featAB,
                   featBA, edits>>

\* Missing without the strip
Missing_nostrip(ss) == SelectSeq(TextKeys, LAMBDA k : ss[k] = <<>>)

\* the names of the required fields whose stripped value is empty
Missing(ss) == SelectSeq(TextKeys, LAMBDA k : strip(ss[k]) = <<>>)

\* row1 / row2 as the check button's handler builds them
Row(ss, n) ==
    IF n = 1
    THEN [ snils |-> ss["snils1"], dob |-> ss["dob1"], mnn |-> ss["mnn1"],
           issued |-> ss["issued1"], disp |-> ss["disp1"],
           qty |-> ss["qty1"], qty_disp |-> ss["qty_disp1"] ]
    ELSE [ snils |-> ss["snils2"], dob |-> ss["dob2"], mnn |-> ss["mnn2"],
           issued |-> ss["issued2"], disp |-> ss["disp2"],
           qty |-> ss["qty2"], qty_disp |-> ss["qty_disp2"] ]

\* Verdict with the threshold included in the upper branch
Verdict_inclusive(p) ==
    IF p >= Threshold
    THEN [kind |-> "success", missing |-> <<>>, pct |-> p]
    ELSE [kind |-> "error", missing |-> <<>>, pct |-> One - p]

\* the message displayed for a probability p
Verdict(p) ==
    IF p > Threshold
    THEN [kind |-> "success", missing |-> <<>>, pct |-> p]
    ELSE [kind |-> "error", missing |-> <<>>, pct |-> One - p]

\* the check button with a required field missing
CheckWarns ==
    /\ Missing(session) # <<>>
    /\ shown' = [kind |-> "warning", missing |-> Missing(session), pct |-> 0]
    /\ features' = None
    /\ prob' = None
    /\ UNCHANGED <<padsYear, gen, raw, out, out2, pc, rowA, rowB, featAB,
                   featBA, session, edits>>

\* the check button with every required field present
CheckScores ==
    /\ Missing(session) = <<>>
    /\ features' = extract_features(Row(session, 1), Row(session, 2))
    /\ \E p \in Probs :
        /\ prob' = <<p>>
        /\ shown' = Verdict(p)
    /\ UNCHANGED <<padsYear, gen, raw, out, out2, pc, rowA, rowB, featAB,
                   featBA, session, edits>>

AppNext ==
    \/ \E k \in Range(TextKeys) : \E v \in Typed(k) : EditText(k, v)
    \/ \E k \in QtyKeys : \E n \in 1..MaxQty : EditQty(k, n)
    \/ FillFromBase
    \/ CheckWarns
    \/ CheckScores

SpecApp == AppInit /\ [][AppNext]_vars

----------------------------------------------------------------------------
(* Properties *)

Str_1990_01_01 == <<"1", "9", "9", "0", "-", "0", "1", "-", "0", "1">>
Str_01_01_1990 == <<"0", "1", ".", "0", "1", ".", "1", "9", "9", "0">>
Str_1_jan_1990_g ==
    <<"1", " ", "cyr_ya", "cyr_n", "cyr_v", " ", "1", "9", "9", "0", " ",
      "cyr_g", ".">>
Str_12345678900 == <<"1", "2", "3", "4", "5", "6", "7", "8", "9", "0", "0">>
Str_123_456_789_00 ==
    <<"1", "2", "3", "-", "4", "5", "6", "-", "7", "8", "9", " ", "0", "0">>

Extracted == pc \in {"extracted", "done"}

\* C1: after extract_features, the identifier flag (dim 6) and the birth
\* date flag (dim 7) are 1 exactly when both normalized values are
\* non-empty and equal, and 0 otherwise; two empty normalizations give 0.
C1_ExactMatchFlags ==
    Extracted =>
        LET sa == normalize_snils(rowA.snils)
            sb == normalize_snils(rowB.snils)
            da == normalize_dob(rowA.dob)
            db == normalize_dob(rowB.dob)
        IN  /\ featAB[6] = (IF sa # <<>> /\ sb # <<>> /\ sa = sb THEN 1 ELSE 0)
            /\ featAB[7] = (IF da # <<>> /\ db # <<>> /\ da = db THEN 1 ELSE 0)

\* C1 witness: both identifiers and both dates normalize to the empty
\* string, and both flags are 0.
C1_Witness ==
    /\ Extracted
    /\ rowA.snils = <<"a", "b", "c">> /\ rowB.snils = <<"1", "2", "3">>
    /\ rowA.dob = <<>> /\ rowB.dob = <<"a", "b", "c">>
    /\ featAB[6] = 0 /\ featAB[7] = 0

\* C2: the records dated "01.01.1990" and "1 <jan> 1990 g." both normalize
\* to "1990-01-01" and their birth date flag is 1.
C2_ScenarioDatesMatch ==
    (Extracted /\ rowA.dob = Str_01_01_1990 /\ rowB.dob = Str_1_jan_1990_g) =>
        /\ normalize_dob(rowA.dob) = Str_1990_01_01
        /\ normalize_dob(rowB.dob) = Str_1990_01_01
        /\ featAB[7] = 1

\* the date of a written date is a date of the calendar
ValidDate(g) ==
    /\ g.style # "literal"
    /\ g.day <= (IF g.month = 2
                 THEN (IF (g.year % 4 = 0) /\ ((g.year % 100 # 0) \/ (g.year % 400 = 0))
                       THEN 29 ELSE 28)
                 ELSE IF g.month \in {4, 6, 9, 11} THEN 30 ELSE 31)

\* the year a written date means: a 2-digit year is of 2000 up to 68 and of
\* 1900 from 69
MeantYear(g) ==
    IF g.style = "dmy_apos"
    THEN (IF g.year % 100 <= 68 THEN 2000 + (g.year % 100) ELSE 1900 + (g.year % 100))
    ELSE g.year

\* the canonical YYYY-MM-DD string of a written date
Canonical(g) ==
    Y4(MeantYear(g)) \o <<"-">> \o D2(g.month) \o <<"-">> \o D2(g.day)

\* C3: a valid date written in any of the five patterns normalizes to its
\* canonical string YYYY-MM-DD (stated for the years from 1000 on, whose
\* canonical string does not depend on the C library).
C3_FivePatternsCanonical ==
    ( /\ pc # "start"
      /\ gen.style \in {"dmy_dot", "dmy_slash", "ymd_dash", "dmy_space", "dmy_apos"}
      /\ gen.spaces = 1
      /\ ValidDate(gen)
      /\ gen.year >= 1000 )
    => out = Canonical(gen)

\* C4: normalize_snils returns the digits of its input, in their order, when
\* there are exactly 11 of them and the empty string otherwise; the records
\* with "12345678900" and "123-456-789 00" both normalize to "12345678900"
\* and their identifier flag is 1.
C4_ElevenDigitsOrEmpty ==
    /\ pc \in {"normalized", "extracted"} =>
        \A k \in 1..2 :
            out[k] = (IF gen[k].n = 11 THEN SnilsDigits(gen[k]) ELSE <<>>)
    /\ (pc = "extracted" /\ raw = <<Str_12345678900, Str_123_456_789_00>>) =>
        /\ out = <<Str_12345678900, Str_12345678900>>
        /\ featAB[6] = 1

\* C4 witness: the two identifiers of the scenario were normalized and
\* compared.
C4_Witness ==
    /\ pc = "extracted"
    /\ raw = <<Str_12345678900, Str_123_456_789_00>>
    /\ out[2] = Str_12345678900
    /\ featAB[6] = 1

\* C5: the verdict is SAME (st.success) exactly when the probability is
\* above 0.5 and DIFFERENT (st.error) otherwise; the displayed confidence is
\* p for SAME and 1 - p for DIFFERENT; a scored run displays one of the two.
C5_VerdictByThreshold ==
    prob # None =>
        /\ shown.kind \in {"success", "error"}
        /\ shown.kind = "success" <=> prob[1] > 500
        /\ shown.kind = "success" => shown.pct = prob[1]
        /\ shown.kind = "error" => shown.pct = 1000 - prob[1]

\* C5 witness: the scorer returned exactly 0.5 and DIFFERENT is displayed
\* with confidence 0.5.
C5_Witness == prob = <<500>> /\ shown.kind = "error" /\ shown.pct = 500

\* C6: a verdict is displayed only for a probability in [0, 1]; a value
\* outside [0, 1] never produces SAME or DIFFERENT.
C6_VerdictOnlyForValidProbability ==
    shown.kind \in {"success", "error"} => (0 <= prob[1] /\ prob[1] <= 1000)

\* C7: extract_features(A, B) = extract_features(B, A) in all 9 dimensions.
C7_Symmetric == pc = "done" => featAB = featBA

\* C8: a valid date already in the canonical form YYYY-MM-DD normalizes to
\* itself, and normalizing the result again changes nothing.
C8_CanonicalIsFixedPoint ==
    (pc = "done" /\ gen.style = "ymd_dash" /\ ValidDate(gen)) =>
        (out = raw /\ out2 = out)

\* C9: "D <abbr> Y" with any of the twelve abbreviated month names, a valid
\* day D and a 4-digit year Y normalizes to "Y-MM-DD" with that month.
C9_AbbreviatedMonths ==
    ( /\ pc # "start"
      /\ gen.style = "d_abbr_y"
      /\ gen.spaces = 1
      /\ ValidDate(gen)
      /\ gen.year >= 1000 )
    => out = Canonical(gen)

\* a text is blank: it has no character other than whitespace
Blank(s) == \A i \in 1..Len(s) : s[i] \in Whitespace

\* C10: a verdict is displayed only when all ten required texts are
\* non-blank; while one is blank no features are extracted and no score is
\* taken, and a displayed warning names exactly the blank fields.
C10_VerdictOnlyForCompleteInput ==
    LET blank == {k \in Range(TextKeys) : Blank(session[k])}
    IN  /\ shown.kind \in {"success", "error"} => blank = {}
        /\ blank # {} => (features = None /\ prob = None)
        /\ shown.kind = "warning" =>
            /\ blank # {}
            /\ Range(shown.missing) = blank
            /\ Len(shown.missing) = Cardinality(blank)
            /\ \A i, j \in 1..Len(shown.missing) :
                   i < j => IndexOf(TextKeys, shown.missing[i])
                            < IndexOf(TextKeys, shown.missing[j])

\* C10 witness: with the first identifier a single space and the other nine
\* texts filled, the check button warned about that one field.
C10_Witness ==
    /\ shown.kind = "warning"
    /\ session["snils1"] = <<" ">>
    /\ shown.missing = <<"snils1">>

====
